---- MODULE Spec2Model ----
(***************************************************************************)
(* Model of the synthetic dataset generator of the Sales Analytics         *)
(* Platform (src/demo_data.py): generate_demo_data,                        *)
(* generate_monthly_demo_data and generate_top_products_data, and the      *)
(* process-global pseudorandom stream (np.random) they all draw from.      *)
(*                                                                         *)
(* Numbers.  A float in [0,1) drawn from the stream is the fraction        *)
(* u / RngMod of a raw draw u in 0..RngMod-1.  A value computed from a     *)
(* draw is kept exact, as a whole number of the unit it is later rounded   *)
(* to (cents, tenths) plus a fraction; a value rounded to 2 decimals is a  *)
(* whole number of cents.                                                  *)
(***************************************************************************)
EXTENDS Integers, Sequences, FiniteSets, TLC

\* ------------------------------------------------------------------ bounds
RngMod == 27        \* resolution of the stream: raw draws are 0..RngMod-1
MaxRecords == 3     \* largest n_records a caller passes
MaxSeed == 1        \* seeds are 0..MaxSeed
MaxPoisson == 5     \* largest Poisson draw enumerated for a single row
MaxPreemptions == 2 \* preemptions of one thread by another in a concurrent run
MaxProbeRows == 2   \* rows of a column computed from freely chosen draws
TopDrawKinds == 2   \* distinct raw draws a leaderboard column is filled from
MaxCleanRows == 3   \* rows of a table handed to clean_data
MaxCleanValue == 2  \* largest number in a cell of such a table

Raw == 0 .. (RngMod - 1)
Seeds == 0 .. MaxSeed
Counts == 0 .. MaxRecords

\* ------------------------------------------------------- program constants
DaysInWindow == 365
MonthlyRows == 12
TopRows == 10
RepCount == 20
Quarter == 4        \* fixed-point unit of clean_data's numbers: a median of medians is exact

\* ------------------------------------------------------------------- state
VARIABLES
    rng,        \* the state of the process-global stream np.random
    call,       \* per thread: the generator call it runs, its locals, its result
    watched,    \* a result of generate_demo_data a caller kept, with its arguments
    probe,      \* the function applied to freely chosen draws, with its result
    sched,      \* the thread that ran last, and the preemptions so far
    registry,   \* the calls of get_demo_datasets: the stream before, the tables returned
    session,    \* st.session_state of one browser session, and what main rendered
    fpu         \* the decimal ties rounded so far, and those whose float lies above

vars == <<rng, call, watched, probe, sched, registry, session, fpu>>

\* ----------------------------------------------------------------- helpers
Max(a, b) == IF a >= b THEN a ELSE b

Abs(a) == IF a >= 0 THEN a ELSE -a

\* floor(a * b / d) without leaving 32-bit integers
MulDiv(a, b, d) == (a \div d) * b + ((a % d) * b) \div d

\* (a * b) mod d without leaving 32-bit integers
MulMod(a, b, d) == ((a % d) * (b % d)) % d

\* the decimal digits of i, zero-padded on the left to at least `width`
RECURSIVE Digits(_, _)
Digits(i, width) ==
    IF i < 10 /\ width <= 1 THEN <<i>>
    ELSE Append(Digits(i \div 10, width - 1), i % 10)

\* the number a digit sequence denotes
RECURSIVE DigitsValue(_)
DigitsValue(ds) ==
    IF Len(ds) = 0 THEN 0
    ELSE 10 * DigitsValue(SubSeq(ds, 1, Len(ds) - 1)) + ds[Len(ds)]

\* f'{prefix}{i:0{width}d}'
FormatId(prefix, width, i) == [prefix |-> prefix, digits |-> Digits(i, width)]

\* the exact number units + rest / den, `units` whole and 0 <= rest < den
Mixed(units, rest, den) == [units |-> units, rest |-> rest, den |-> den]

\* the numerator of x over x.den
Numer(x) == x.units * x.den + x.rest

\* k * x for a whole k
TimesInt(x, k) ==
    Mixed(x.units * k + (x.rest * k) \div x.den, (x.rest * k) % x.den, x.den)

\* x * y / c for a whole c
TimesOver(x, y, c) ==
    LET d == x.den * y.den * c
    IN  Mixed(MulDiv(Numer(x), Numer(y), d), MulMod(Numer(x), Numer(y), d), d)

\* x - y, where y.den is a multiple of x.den
Minus(x, y) ==
    LET xr == x.rest * (y.den \div x.den)
    IN  IF xr >= y.rest THEN Mixed(x.units - y.units, xr - y.rest, y.den)
        ELSE Mixed(x.units - y.units - 1, xr - y.rest + y.den, y.den)

\* x > y for numbers of one denominator
Greater(x, y) == x.units > y.units \/ (x.units = y.units /\ x.rest > y.rest)

\* x lies halfway between two whole numbers
IsTie(x) == 2 * x.rest = x.den

\* rounding of a float to the nearest whole number of the unit x is counted in.
\* The float is the binary number the arithmetic arrived at for x; where x is a
\* tie the float lies on it or to either side, and `above` says that it is
\* rounded upwards
RoundNearest(x, above) ==
    IF 2 * x.rest < x.den THEN x.units
    ELSE IF 2 * x.rest > x.den THEN x.units + 1
    ELSE IF above THEN x.units + 1 ELSE x.units

\* the name of a rounded value: its column and the whole number below it
TieKey(col, x) == <<col, x.units>>

\* insertion of x into an ascending sequence, after its equals
RECURSIVE InsertAsc(_, _)
InsertAsc(s, x) ==
    IF Len(s) = 0 THEN <<x>>
    ELSE IF x < s[Len(s)] THEN Append(InsertAsc(SubSeq(s, 1, Len(s) - 1), x), s[Len(s)])
    ELSE Append(s, x)

\* np.sort
RECURSIVE SortAsc(_)
SortAsc(s) ==
    IF Len(s) = 0 THEN <<>>
    ELSE InsertAsc(SortAsc(SubSeq(s, 1, Len(s) - 1)), s[Len(s)])

\* ------------------------------------------- the pseudorandom stream (np.random)
\* np.random.seed left out: the stream stays in the state it was in
NoReseed(seed) == rng

\* np.random.seed(seed): the state of the stream is a function of the seed alone
SeedState(seed) == (7 * seed + 1) % RngMod

\* one step of the generator; the raw draw it yields is the new state
NextState(s) == (10 * s + 7) % RngMod

\* the state of the stream after k draws
RECURSIVE Advance(_, _)
Advance(s, k) == IF k = 0 THEN s ELSE Advance(NextState(s), k - 1)

\* the k raw draws a vectorised call takes from the stream in state s
RECURSIVE Draws(_, _)
Draws(s, k) == IF k = 0 THEN <<>> ELSE <<NextState(s)>> \o Draws(NextState(s), k - 1)

\* np.random.uniform(lo, hi) for the raw draw u: lo + (hi - lo) * u / RngMod,
\* exact, in the unit of the whole numbers lo and hi
Uniform(lo, hi, u) ==
    Mixed(lo + ((hi - lo) * u) \div RngMod, ((hi - lo) * u) % RngMod, RngMod)

\* cumulative sums of a weight vector (the cdf np.random.choice builds from p)
RECURSIVE CumSum(_)
CumSum(w) ==
    IF Len(w) = 0 THEN <<>>
    ELSE LET c == CumSum(SubSeq(w, 1, Len(w) - 1))
         IN  Append(c, (IF Len(c) = 0 THEN 0 ELSE c[Len(c)]) + w[Len(w)])

\* one sample of np.random.choice(items, p=weights): cdf.searchsorted(u, side='right')
ChooseWeighted(items, weights, u) ==
    LET cdf == CumSum(weights)
        total == cdf[Len(cdf)]
    IN  items[1 + Cardinality({i \in 1 .. Len(cdf) : cdf[i] * RngMod <= u * total})]

\* np.random.choice(items, size, p=weights)
ChoiceP(items, weights, draws) ==
    [i \in 1 .. Len(draws) |-> ChooseWeighted(items, weights, draws[i])]

\* np.random.choice(items, size): a uniform index into items
Choice(items, draws) ==
    [i \in 1 .. Len(draws) |-> items[1 + (draws[i] * Len(items)) \div RngMod]]

\* the bounds looked at before the size: an empty range raises for no sample too
RandIntRaisesAnySize(low, high, draws) == low >= high

\* np.random.randint(low, high, size): an empty size returns the empty array
\* before the bounds are looked at; otherwise low >= high raises ValueError
RandIntRaises(low, high, draws) == Len(draws) > 0 /\ low >= high

RandInt(low, high, draws) ==
    [i \in 1 .. Len(draws) |-> low + (draws[i] * (high - low)) \div RngMod]

\* cumulative distribution of Poisson(2), in 1/1000: P(X <= k) for k = 0, 1, ...
PoissonCdf == <<135, 406, 677, 857, 947, 983, 995, 999>>

\* np.random.poisson(2) for the raw draw u (inversion of the cdf)
Poisson(u) == Cardinality({k \in 1 .. Len(PoissonCdf) : PoissonCdf[k] * RngMod <= u * 1000})

\* ----------------------------------------------------------------- dates
MonthLengths == <<31, 28, 31, 30, 31, 30, 31, 31, 30, 31, 30, 31>>

\* the date `offset` days after the first of `month` of `year`
RECURSIVE DateFrom(_, _, _)
DateFrom(year, month, offset) ==
    IF offset < MonthLengths[month] THEN [year |-> year, month |-> month, day |-> offset + 1]
    ELSE IF month = 12 THEN DateFrom(year + 1, 1, offset - MonthLengths[month])
    ELSE DateFrom(year, month + 1, offset - MonthLengths[month])

\* start_date = datetime(2023, 1, 1); start_date + timedelta(days=d)
StartYear == 2023

DatePlus(d) == DateFrom(StartYear, 1, d)

\* int(x) for x = u / RngMod * 365
DayOffset(u) == (u * DaysInWindow) \div RngMod

\* the draws taken in the order drawn: np.sort left out
DatesUnsorted(draws) == [i \in 1 .. Len(draws) |-> DatePlus(DayOffset(draws[i]))]

\* dates = [start_date + timedelta(days=int(x)) for x in np.sort(rand(n) * 365)]
DatesOf(draws) ==
    LET sorted == SortAsc(draws)
    IN  [i \in 1 .. Len(draws) |-> DatePlus(DayOffset(sorted[i]))]

DateLeq(a, b) ==
    \/ a.year < b.year
    \/ a.year = b.year /\ a.month < b.month
    \/ a.year = b.year /\ a.month = b.month /\ a.day <= b.day

\* pd.date_range('2023-01', '2023-12', freq='MS'): the month starts from the
\* first of month `from` up to and including the first of month `to`
DateRangeMS(from, to) ==
    [i \in 1 .. Max(to - from + 1, 0) |-> [year |-> StartYear, month |-> from + i - 1, day |-> 1]]

\* ------------------------------------------------ generate_demo_data's tables
products ==
    <<"Laptop", "Phone", "Tablet", "Headphones", "Mouse", "Keyboard",
      "Monitor", "Webcam", "Speaker", "Charger">>

product_weights == <<15, 20, 12, 10, 8, 7, 13, 5, 6, 4>>

\* Monitor filed under Accessories
category_map_monitor ==
    [p \in {products[i] : i \in 1 .. Len(products)} |->
        CASE p \in {"Laptop"} -> "Computers"
          [] p \in {"Phone", "Tablet"} -> "Mobile"
          [] OTHER -> "Accessories"]

category_map ==
    [p \in {products[i] : i \in 1 .. Len(products)} |->
        CASE p \in {"Laptop", "Monitor"} -> "Computers"
          [] p \in {"Phone", "Tablet"} -> "Mobile"
          [] OTHER -> "Accessories"]

regions == <<"North", "South", "East", "West", "Central">>

region_weights == <<22, 18, 25, 20, 15>>

channels == <<"Online", "Retail", "Partner">>

channel_weights == <<45, 35, 20>>

segments == <<"Enterprise", "SMB", "Consumer">>

segment_weights == <<25, 35, 40>>

base_prices ==
    [p \in {products[i] : i \in 1 .. Len(products)} |->
        CASE p = "Laptop" -> 1200 [] p = "Phone" -> 800 [] p = "Tablet" -> 500
          [] p = "Headphones" -> 150 [] p = "Mouse" -> 50 [] p = "Keyboard" -> 80
          [] p = "Monitor" -> 350 [] p = "Webcam" -> 100 [] p = "Speaker" -> 120
          [] p = "Charger" -> 30]

\* the seasonal multipliers, in 1/100
month_multipliers == <<80, 85, 90, 100, 100, 110, 115, 110, 100, 105, 130, 140>>

reps == [i \in 1 .. RepCount |-> FormatId("Rep_", 2, i)]

\* categories = [category_map[p] for p in product_list]
Categories(product_list) == [i \in 1 .. Len(product_list) |-> category_map[product_list[i]]]

\* base_prices[p] * np.random.uniform(0.8, 1.2), in cents
UnitPrice(p, u) == TimesInt(Uniform(80, 120, u), base_prices[p])

\* base_qty = np.random.poisson(2) + 1; int(base_qty * month_multipliers[date.month])
Quantity(k, month) == ((k + 1) * month_multipliers[month]) \div 100

\* revenue = p * q
Revenue(p, q) == TimesInt(p, q)

\* the cost factor drawn from [0.70, 1.15): a cost that can exceed the revenue
CostMarkup(p, u, q) == TimesOver(TimesInt(p, q), Uniform(70, 115, u), 100)

\* costs = p * np.random.uniform(0.70, 0.85) * q, the whole product, in cents
Cost(p, u, q) == TimesOver(TimesInt(p, q), Uniform(70, 85, u), 100)

\* profit = r - c
Profit(r, c) == Minus(r, c)

\* the digits after the second decimal cut off instead of rounded
Truncate2(col, x, up) == x.units

\* round(x, 2) of a money value x of column col, in cents; `up` holds the ties
\* that are rounded upwards
Round2(col, x, up) == RoundNearest(x, TieKey(col, x) \in up)

\* n_customers = n_records // 3
CustomerPool(n) == n \div 3

\* f'CUST{i:05d}' for the drawn i
CustomerIds(ints) == [i \in 1 .. Len(ints) |-> FormatId("CUST", 5, ints[i])]

\* order_ids = [f'ORD{i:06d}' for i in range(1, n_records + 1)]
OrderIds(n) == [i \in 1 .. n |-> FormatId("ORD", 6, i)]

DetailColumns ==
    {"Order_ID", "Date", "Customer_ID", "Product", "Category", "Quantity", "Unit_Price",
     "Revenue", "Cost", "Profit", "Region", "Channel", "Customer_Segment", "Sales_Rep"}

\* pd.DataFrame(dict of columns): columns of unequal length raise ValueError
NoFrame == [error |-> <<"ValueError">>]

Raised == [raised |-> TRUE, frame |-> NoFrame]

DataFrame(cols) ==
    IF \A a, b \in DOMAIN cols : Len(cols[a]) = Len(cols[b])
    THEN [raised |-> FALSE, frame |-> cols]
    ELSE Raised

NRows(frame) == Len(frame[CHOOSE c \in DOMAIN frame : TRUE])

\* the local variables of generate_demo_data before its first statement
DemoLocals ==
    [dates |-> <<>>, product_list |-> <<>>, categories |-> <<>>, region_list |-> <<>>,
     channel_list |-> <<>>, segment_list |-> <<>>, prices |-> <<>>, quantities |-> <<>>,
     costs |-> <<>>, customer_ids |-> <<>>, rep_list |-> <<>>]

\* the values generate_demo_data rounds that are decimal ties, by their names
DetailTies(loc) ==
    LET revenue == [i \in 1 .. Len(loc.prices) |-> Revenue(loc.prices[i], loc.quantities[i])]
        profit == [i \in 1 .. Len(loc.costs) |-> Profit(revenue[i], loc.costs[i])]
        cells == {<<"Unit_Price", loc.prices[i]>> : i \in 1 .. Len(loc.prices)}
                 \cup {<<"Revenue", revenue[i]>> : i \in 1 .. Len(revenue)}
                 \cup {<<"Cost", loc.costs[i]>> : i \in 1 .. Len(loc.costs)}
                 \cup {<<"Profit", profit[i]>> : i \in 1 .. Len(profit)}
    IN  {TieKey(c[1], c[2]) : c \in {c \in cells : IsTie(c[2])}}

\* the dict generate_demo_data hands to pd.DataFrame; revenue and profit are
\* computed from the unrounded prices and costs, every money column is rounded
\* on its own
DetailDict(n, loc, up) ==
    LET revenue == [i \in 1 .. Len(loc.prices) |-> Revenue(loc.prices[i], loc.quantities[i])]
        profit == [i \in 1 .. Len(loc.costs) |-> Profit(revenue[i], loc.costs[i])]
    IN  [Order_ID |-> OrderIds(n),
         Date |-> loc.dates,
         Customer_ID |-> loc.customer_ids,
         Product |-> loc.product_list,
         Category |-> loc.categories,
         Quantity |-> loc.quantities,
         Unit_Price |-> [i \in 1 .. Len(loc.prices) |-> Round2("Unit_Price", loc.prices[i], up)],
         Revenue |-> [i \in 1 .. Len(revenue) |-> Round2("Revenue", revenue[i], up)],
         Cost |-> [i \in 1 .. Len(loc.costs) |-> Round2("Cost", loc.costs[i], up)],
         Profit |-> [i \in 1 .. Len(profit) |-> Round2("Profit", profit[i], up)],
         Region |-> loc.region_list,
         Channel |-> loc.channel_list,
         Customer_Segment |-> loc.segment_list,
         Sales_Rep |-> loc.rep_list]

\* the local variables of generate_demo_data(n_records, seed) before the frame
\* is built, the stream to itself
DemoLocalsOf(n, seed) ==
    LET s0 == SeedState(seed)
        s1 == Advance(s0, n)
        s2 == Advance(s1, n)
        s3 == Advance(s2, n)
        s4 == Advance(s3, n)
        s5 == Advance(s4, n)
        s6 == Advance(s5, n)
        s7 == Advance(s6, n)
        s8 == Advance(s7, n)
        s9 == Advance(s8, n)
        dates == DatesOf(Draws(s0, n))
        product_list == ChoiceP(products, product_weights, Draws(s1, n))
        priceDraws == Draws(s5, n)
        qtyDraws == Draws(s6, n)
        costDraws == Draws(s7, n)
        prices == [i \in 1 .. n |-> UnitPrice(product_list[i], priceDraws[i])]
        quantities == [i \in 1 .. n |-> Quantity(Poisson(qtyDraws[i]), dates[i].month)]
        loc == [dates |-> dates,
                product_list |-> product_list,
                categories |-> Categories(product_list),
                region_list |-> ChoiceP(regions, region_weights, Draws(s2, n)),
                channel_list |-> ChoiceP(channels, channel_weights, Draws(s3, n)),
                segment_list |-> ChoiceP(segments, segment_weights, Draws(s4, n)),
                prices |-> prices,
                quantities |-> quantities,
                costs |-> [i \in 1 .. n |-> Cost(prices[i], costDraws[i], quantities[i])],
                customer_ids |-> CustomerIds(RandInt(1, CustomerPool(n) + 1, Draws(s8, n))),
                rep_list |-> Choice(reps, Draws(s9, n))]
    IN  loc

\* np.random.randint raises in generate_demo_data(n_records, seed)
DemoRaises(n, seed) ==
    RandIntRaises(1, CustomerPool(n) + 1, Draws(Advance(SeedState(seed), 8 * n), n))

\* generate_demo_data(n_records, seed) run to its end with the stream to itself
generate_demo_data(n, seed, up) ==
    IF DemoRaises(n, seed) THEN Raised
    ELSE DataFrame(DetailDict(n, DemoLocalsOf(n, seed), up))

\* the decimal ties generate_demo_data(n_records, seed) rounds
DemoTies(n, seed) == IF DemoRaises(n, seed) THEN {} ELSE DetailTies(DemoLocalsOf(n, seed))

\* ------------------------------------------------- generate_monthly_demo_data
MonthlyLocals ==
    [Month |-> <<>>, Total_Revenue |-> <<>>, Total_Orders |-> <<>>,
     Avg_Order_Value |-> <<>>, Customer_Count |-> <<>>, New_Customers |-> <<>>]

\* the end of the range taken as exclusive
MonthsEndExclusive == DateRangeMS(1, 11)

\* months = pd.date_range('2023-01', '2023-12', freq='MS')
Months == DateRangeMS(1, 12)

\* np.random.uniform(lo, hi, size), in the unit of the whole numbers lo and hi
UniformVec(lo, hi, draws) == [i \in 1 .. Len(draws) |-> Uniform(lo, hi, draws[i])]

\* Series.round(2) of the values of column col, in cents; `up` holds the ties
\* that are rounded upwards
RoundCents(col, vals, up) ==
    [i \in 1 .. Len(vals) |-> RoundNearest(vals[i], TieKey(col, vals[i]) \in up)]

\* Series.round(1) of the values of column col, in tenths
RoundTenths(col, vals, up) ==
    [i \in 1 .. Len(vals) |-> RoundNearest(vals[i], TieKey(col, vals[i]) \in up)]

\* the values of column col that are ties, by their names
ColumnTies(col, vals) ==
    {TieKey(col, vals[i]) : i \in {j \in 1 .. Len(vals) : IsTie(vals[j])}}

\* the decimal ties generate_monthly_demo_data rounds
MonthlyFrameTies(loc) ==
    ColumnTies("Total_Revenue", loc.Total_Revenue)
    \cup ColumnTies("Avg_Order_Value", loc.Avg_Order_Value)

\* df = pd.DataFrame(data); Total_Revenue and Avg_Order_Value rounded to 2 decimals
MonthlyFrame(loc, up) ==
    LET df == DataFrame(loc)
    IN  IF df.raised THEN df
        ELSE [df EXCEPT !.frame.Total_Revenue = RoundCents("Total_Revenue", @, up),
                        !.frame.Avg_Order_Value = RoundCents("Avg_Order_Value", @, up)]

\* the dict generate_monthly_demo_data(seed) hands to pd.DataFrame, the stream
\* to itself
MonthlyLocalsOf(seed) ==
    LET s0 == SeedState(seed)
        s1 == Advance(s0, MonthlyRows)
        s2 == Advance(s1, MonthlyRows)
        s3 == Advance(s2, MonthlyRows)
        s4 == Advance(s3, MonthlyRows)
    IN  [Month |-> Months,
         Total_Revenue |-> UniformVec(15000000, 25000000, Draws(s0, MonthlyRows)),
         Total_Orders |-> RandInt(400, 700, Draws(s1, MonthlyRows)),
         Avg_Order_Value |-> UniformVec(30000, 50000, Draws(s2, MonthlyRows)),
         Customer_Count |-> RandInt(300, 500, Draws(s3, MonthlyRows)),
         New_Customers |-> RandInt(50, 120, Draws(s4, MonthlyRows))]

generate_monthly_demo_data(seed, up) == MonthlyFrame(MonthlyLocalsOf(seed), up)

MonthlyTies(seed) == MonthlyFrameTies(MonthlyLocalsOf(seed))

\* ------------------------------------------------- generate_top_products_data
top_products ==
    <<"Laptop Pro", "Smartphone X", "Tablet Mini", "Wireless Headphones", "Gaming Mouse",
      "Mechanical Keyboard", "4K Monitor", "HD Webcam", "Bluetooth Speaker", "Fast Charger">>

TopLocals ==
    [Product |-> top_products, Units_Sold |-> <<>>, Revenue |-> <<>>,
     Avg_Rating |-> <<>>, Return_Rate |-> <<>>]

\* the row indices of a frame ordered by Revenue, largest first; rows of equal
\* Revenue keep their order
RECURSIVE InsertDesc(_, _, _)
InsertDesc(order, key, i) ==
    IF Len(order) = 0 THEN <<i>>
    ELSE IF Greater(key[i], key[order[Len(order)]])
         THEN Append(InsertDesc(SubSeq(order, 1, Len(order) - 1), key, i), order[Len(order)])
         ELSE Append(order, i)

RECURSIVE OrderDesc(_, _)
OrderDesc(key, k) == IF k = 0 THEN <<>> ELSE InsertDesc(OrderDesc(key, k - 1), key, k)

\* the sort left out: the rows stay in the order of the product list
NotSorted(frame) == frame

\* df.sort_values('Revenue', ascending=False)
SortValuesDesc(frame) ==
    LET order == OrderDesc(frame.Revenue, Len(frame.Revenue))
    IN  [c \in DOMAIN frame |-> [i \in 1 .. Len(order) |-> frame[c][order[i]]]]

\* df = pd.DataFrame(data), sorted by Revenue descending, then Revenue and
\* Return_Rate rounded to 2 decimals and Avg_Rating to 1
TopFrame(loc, up) ==
    LET df == DataFrame(loc)
    IN  IF df.raised THEN df
        ELSE LET sorted == SortValuesDesc(df.frame)
             IN  [df EXCEPT !.frame =
                     [sorted EXCEPT !.Revenue = RoundCents("Top_Revenue", @, up),
                                    !.Avg_Rating = RoundTenths("Avg_Rating", @, up),
                                    !.Return_Rate = RoundCents("Return_Rate", @, up)]]

\* the decimal ties generate_top_products_data rounds
TopFrameTies(loc) ==
    ColumnTies("Top_Revenue", loc.Revenue)
    \cup ColumnTies("Avg_Rating", loc.Avg_Rating)
    \cup ColumnTies("Return_Rate", loc.Return_Rate)

\* the dict generate_top_products_data(seed) hands to pd.DataFrame, the stream
\* to itself
TopLocalsOf(seed) ==
    LET s0 == SeedState(seed)
        s1 == Advance(s0, TopRows)
        s2 == Advance(s1, TopRows)
        s3 == Advance(s2, TopRows)
    IN  [Product |-> top_products,
         Units_Sold |-> RandInt(500, 2000, Draws(s0, TopRows)),
         Revenue |-> UniformVec(5000000, 20000000, Draws(s1, TopRows)),
         Avg_Rating |-> UniformVec(35, 50, Draws(s2, TopRows)),
         Return_Rate |-> UniformVec(100, 800, Draws(s3, TopRows))]

generate_top_products_data(seed, up) == TopFrame(TopLocalsOf(seed), up)

TopTies(seed) == TopFrameTies(TopLocalsOf(seed))

\* ---------------------------------------------------------- the demo registry
\* the default seed of the three generators
DefaultSeed == 42

\* generate_demo_data(2000): the length of the registry's detail table, bounded
RegistryRecords == MaxRecords

\* the labels of the three demo tables (the source's labels are Russian text)
SalesLabel == "Detailed sales (2000 records)"

MonthlyLabel == "Monthly statistics (12 months)"

TopLabel == "Top products (10 items)"

\* the decimal ties the three generators round in a call of get_demo_datasets
RegistryTies ==
    DemoTies(RegistryRecords, DefaultSeed) \cup MonthlyTies(DefaultSeed) \cup TopTies(DefaultSeed)

\* the three labelled tables, for every way the ties among them are rounded
RegistryTables ==
    {[up |-> up,
      ret |-> (SalesLabel :> generate_demo_data(RegistryRecords, DefaultSeed, up))
              @@ (MonthlyLabel :> generate_monthly_demo_data(DefaultSeed, up))
              @@ (TopLabel :> generate_top_products_data(DefaultSeed, up))] :
        up \in SUBSET RegistryTies}

\* the dict get_demo_datasets returns: every call runs the three generators with
\* their default seed
get_demo_datasets(up) == (CHOOSE t \in RegistryTables : t.up = up \cap RegistryTies).ret

get_demo_description ==
    (SalesLabel :> "orders, products, regions and channels")
    @@ (MonthlyLabel :> "monthly revenue, orders and customers of 2023")
    @@ (TopLabel :> "the most popular products with their sales and ratings")

\* the process-global stream when get_demo_datasets returns: the last generator
\* it runs, generate_top_products_data, seeded it and took four vectors of draws
StreamAfterRegistry == Advance(SeedState(DefaultSeed), 4 * TopRows)

\* ---------------------------------------------------------------- clean_data
\* a missing value of a numeric column, and a number n, in 1/Quarter
NaN == [nan |-> TRUE, v |-> 0]

Num(n) == [nan |-> FALSE, v |-> n * Quarter]

\* df.drop_duplicates(): the first of equal rows is kept, missing values equal
RECURSIVE drop_duplicates(_)
drop_duplicates(df) ==
    IF Len(df) = 0 THEN <<>>
    ELSE LET head == drop_duplicates(SubSeq(df, 1, Len(df) - 1))
             last == df[Len(df)]
         IN  IF \E i \in 1 .. Len(head) : head[i] = last THEN head ELSE Append(head, last)

\* the numbers of column A that are not missing, in the rows' order
RECURSIVE Present(_)
Present(df) ==
    IF Len(df) = 0 THEN <<>>
    ELSE LET head == Present(SubSeq(df, 1, Len(df) - 1))
         IN  IF df[Len(df)].A.nan THEN head ELSE Append(head, df[Len(df)].A.v)

\* df['A'].median(): missing values skipped; NaN when nothing is left; the mean
\* of the two middle values for an even count
median(df) ==
    LET vals == SortAsc(Present(df))
        n == Len(vals)
    IN  IF n = 0 THEN NaN
        ELSE IF n % 2 = 1 THEN [nan |-> FALSE, v |-> vals[(n + 1) \div 2]]
        ELSE [nan |-> FALSE, v |-> (vals[n \div 2] + vals[n \div 2 + 1]) \div 2]

\* Series.fillna(value): every missing value replaced; fillna(NaN) changes nothing
fillna(df, value) ==
    [i \in 1 .. Len(df) |-> IF df[i].A.nan THEN [df[i] EXCEPT !.A = value] ELSE df[i]]

\* clean_data(df) for a table with the numeric column A and the text column B;
\* df_clean[col].fillna(..., inplace=True) writes into df_clean, unless pandas
\* runs with copy-on-write, where it writes into a temporary copy of the column
clean_data(df, copy_on_write) ==
    LET df_clean == drop_duplicates(df)
    IN  IF copy_on_write THEN df_clean ELSE fillna(df_clean, median(df_clean))

\* ------------------------------------------------------------ initial state
MainThread == "main"

OtherThread == "other"

Threads == {MainThread, OtherThread}

Idle == [pc |-> "idle", fn |-> "none", n |-> 0, seed |-> 0, loc |-> DemoLocals, ret |-> Raised]

NoneWatched == [kept |-> FALSE, n |-> 0, seed |-> 0, ret |-> Raised, later |-> 0]

NoProbe == [op |-> "none"]

\* no decimal tie rounded yet
NoTies == [met |-> {}, up |-> {}]

\* the ties of `ties` not rounded before: the floats they stand for are new
Open(ties) == ties \ fpu.met

\* the ties rounded so far after those of `ties` were, `more` of them upwards
Resolved(ties, more) == [met |-> fpu.met \cup ties, up |-> fpu.up \cup more]

\* get_demo_datasets not called yet
NoRegistry == [calls |-> 0]

\* no file in the uploader: st.file_uploader returns None
NoFile == [name |-> "None", ext |-> "", wellformed |-> FALSE]

\* the widgets' values in a run of main that no user event triggered
NoInputs == [reload |-> FALSE, section |-> "overview", file |-> NoFile,
             selected_demo |-> "", load_demo |-> FALSE]

\* st.session_state['data'] = None
NoData == [origin |-> "None"]

\* a browser session before the first run of main: st.session_state has no key
NoSession == [started |-> FALSE, data |-> NoData, data_source |-> "None",
              current_section |-> "None", rendered |-> "nothing", upload |-> "none",
              crashed |-> FALSE, rerun |-> FALSE, inputs |-> NoInputs, loads |-> 0]

\* the scheduler after thread t ran a step: taking the processor from a thread
\* in the middle of a call is a preemption
Switch(t) ==
    IF sched.running \in {"none", t} \/ call[sched.running].pc \in {"idle", "returned", "kept"}
    THEN [sched EXCEPT !.running = t]
    ELSE [running |-> t, preemptions |-> sched.preemptions + 1]

\* the stream starts in a state the program does not choose
Init ==
    /\ rng \in Raw
    /\ call = [t \in Threads |-> Idle]
    /\ watched = NoneWatched
    /\ probe = NoProbe
    /\ sched = [running |-> "none", preemptions |-> 0]
    /\ registry = NoRegistry
    /\ session = NoSession
    /\ fpu = NoTies

At(t, fn, pc) == call[t].fn = fn /\ call[t].pc = pc

\* thread t at another statement
Goto(t, pc) == [call EXCEPT ![t].pc = pc]

\* the calls begun since the caller kept a result are counted, up to two
Counted == IF watched.kept /\ watched.later < 2 THEN [watched EXCEPT !.later = @ + 1] ELSE watched

\* ------------------------------------------------ generate_demo_data, by step
\* a caller on thread t invokes generate_demo_data(n, seed)
CallDemo(t) ==
    /\ call[t].pc \in {"idle", "returned", "kept"}
    /\ \E n \in Counts, seed \in Seeds :
           call' = [call EXCEPT ![t] = [pc |-> "seed", fn |-> "demo", n |-> n, seed |-> seed,
                                       loc |-> DemoLocals, ret |-> Raised]]
    /\ sched' = Switch(t)
    /\ watched' = Counted
    /\ UNCHANGED <<rng, probe, registry, session, fpu>>

\* np.random.seed(seed)
DemoSeed(t) ==
    /\ At(t, "demo", "seed")
    /\ rng' = SeedState(call[t].seed)
    /\ call' = Goto(t, "dates")
    /\ sched' = Switch(t)
    /\ UNCHANGED <<watched, probe, registry, session, fpu>>

\* dates = [... for x in np.sort(np.random.rand(n_records) * 365)]
DemoDates(t) ==
    /\ At(t, "demo", "dates")
    /\ rng' = Advance(rng, call[t].n)
    /\ call' = [call EXCEPT ![t].pc = "products",
                            ![t].loc.dates = DatesOf(Draws(rng, call[t].n))]
    /\ sched' = Switch(t)
    /\ UNCHANGED <<watched, probe, registry, session, fpu>>

\* product_list = np.random.choice(products, n_records, p=[...]); categories
DemoProducts(t) ==
    /\ At(t, "demo", "products")
    /\ rng' = Advance(rng, call[t].n)
    /\ LET product_list == ChoiceP(products, product_weights, Draws(rng, call[t].n))
       IN  call' = [call EXCEPT ![t].pc = "regions",
                                ![t].loc.product_list = product_list,
                                ![t].loc.categories = Categories(product_list)]
    /\ sched' = Switch(t)
    /\ UNCHANGED <<watched, probe, registry, session, fpu>>

\* region_list = np.random.choice(regions, n_records, p=[...])
DemoRegions(t) ==
    /\ At(t, "demo", "regions")
    /\ rng' = Advance(rng, call[t].n)
    /\ call' = [call EXCEPT ![t].pc = "channels",
                            ![t].loc.region_list =
                                ChoiceP(regions, region_weights, Draws(rng, call[t].n))]
    /\ sched' = Switch(t)
    /\ UNCHANGED <<watched, probe, registry, session, fpu>>

\* channel_list = np.random.choice(channels, n_records, p=[...])
DemoChannels(t) ==
    /\ At(t, "demo", "channels")
    /\ rng' = Advance(rng, call[t].n)
    /\ call' = [call EXCEPT ![t].pc = "segments",
                            ![t].loc.channel_list =
                                ChoiceP(channels, channel_weights, Draws(rng, call[t].n))]
    /\ sched' = Switch(t)
    /\ UNCHANGED <<watched, probe, registry, session, fpu>>

\* segment_list = np.random.choice(segments, n_records, p=[...]); the three
\* loops over the rows that follow run no iteration when there is no row
DemoSegments(t) ==
    /\ At(t, "demo", "segments")
    /\ rng' = Advance(rng, call[t].n)
    /\ call' = [call EXCEPT ![t].pc = IF call[t].n = 0 THEN "customers" ELSE "prices",
                            ![t].loc.segment_list =
                                ChoiceP(segments, segment_weights, Draws(rng, call[t].n))]
    /\ sched' = Switch(t)
    /\ UNCHANGED <<watched, probe, registry, session, fpu>>

\* one iteration of prices = [base_prices[p] * np.random.uniform(0.8, 1.2) for p in product_list]
DemoPrice(t) ==
    /\ At(t, "demo", "prices")
    /\ rng' = NextState(rng)
    /\ LET loc == call[t].loc
           i == Len(loc.prices) + 1
       IN  call' = [call EXCEPT ![t].pc = IF i = call[t].n THEN "quantities" ELSE "prices",
                                ![t].loc.prices =
                                    Append(loc.prices, UnitPrice(loc.product_list[i], NextState(rng)))]
    /\ sched' = Switch(t)
    /\ UNCHANGED <<watched, probe, registry, session, fpu>>

\* one iteration of the loop over dates that appends to quantities
DemoQuantity(t) ==
    /\ At(t, "demo", "quantities")
    /\ rng' = NextState(rng)
    /\ LET loc == call[t].loc
           i == Len(loc.quantities) + 1
       IN  call' = [call EXCEPT ![t].pc = IF i = call[t].n THEN "costs" ELSE "quantities",
                                ![t].loc.quantities =
                                    Append(loc.quantities,
                                           Quantity(Poisson(NextState(rng)), loc.dates[i].month))]
    /\ sched' = Switch(t)
    /\ UNCHANGED <<watched, probe, registry, session, fpu>>

\* one iteration of costs = [p * np.random.uniform(0.70, 0.85) * q for p, q in zip(...)]
DemoCost(t) ==
    /\ At(t, "demo", "costs")
    /\ rng' = NextState(rng)
    /\ LET loc == call[t].loc
           i == Len(loc.costs) + 1
       IN  call' = [call EXCEPT ![t].pc = IF i = call[t].n THEN "customers" ELSE "costs",
                                ![t].loc.costs =
                                    Append(loc.costs,
                                           Cost(loc.prices[i], NextState(rng), loc.quantities[i]))]
    /\ sched' = Switch(t)
    /\ UNCHANGED <<watched, probe, registry, session, fpu>>

\* customer_ids = [f'CUST{i:05d}' for i in np.random.randint(1, n_customers + 1, n_records)];
\* a ValueError of randint leaves generate_demo_data
DemoCustomers(t) ==
    /\ At(t, "demo", "customers")
    /\ LET draws == Draws(rng, call[t].n)
           high == CustomerPool(call[t].n) + 1
       IN  IF RandIntRaises(1, high, draws)
           THEN /\ call' = [call EXCEPT ![t].pc = "returned", ![t].ret = Raised]
                /\ rng' = rng
           ELSE /\ call' = [call EXCEPT ![t].pc = "reps",
                                        ![t].loc.customer_ids = CustomerIds(RandInt(1, high, draws))]
                /\ rng' = Advance(rng, call[t].n)
    /\ sched' = Switch(t)
    /\ UNCHANGED <<watched, probe, registry, session, fpu>>

\* rep_list = np.random.choice(reps, n_records)
DemoReps(t) ==
    /\ At(t, "demo", "reps")
    /\ rng' = Advance(rng, call[t].n)
    /\ call' = [call EXCEPT ![t].pc = "frame",
                            ![t].loc.rep_list = Choice(reps, Draws(rng, call[t].n))]
    /\ sched' = Switch(t)
    /\ UNCHANGED <<watched, probe, registry, session, fpu>>

\* df = pd.DataFrame({...}); return df
DemoFrame(t) ==
    /\ At(t, "demo", "frame")
    /\ \E more \in SUBSET Open(DetailTies(call[t].loc)) :
           /\ fpu' = Resolved(DetailTies(call[t].loc), more)
           /\ call' = [call EXCEPT
                          ![t].pc = "returned",
                          ![t].ret = DataFrame(DetailDict(call[t].n, call[t].loc,
                                                          fpu.up \cup more))]
    /\ sched' = Switch(t)
    /\ UNCHANGED <<rng, watched, probe, registry, session>>

\* the caller keeps what a call of generate_demo_data returned, to compare it
\* with what later calls return
KeepResult(t) ==
    /\ At(t, "demo", "returned")
    /\ ~watched.kept
    /\ watched' = [kept |-> TRUE, n |-> call[t].n, seed |-> call[t].seed,
                   ret |-> call[t].ret, later |-> 0]
    /\ call' = Goto(t, "kept")
    /\ sched' = Switch(t)
    /\ UNCHANGED <<rng, probe, registry, session, fpu>>

DemoStep(t) ==
    \/ DemoSeed(t)
    \/ DemoDates(t)
    \/ DemoProducts(t)
    \/ DemoRegions(t)
    \/ DemoChannels(t)
    \/ DemoSegments(t)
    \/ DemoPrice(t)
    \/ DemoQuantity(t)
    \/ DemoCost(t)
    \/ DemoCustomers(t)
    \/ DemoReps(t)
    \/ DemoFrame(t)

\* --------------------------------------- generate_monthly_demo_data, by step
CallMonthly(t) ==
    /\ call[t].pc \in {"idle", "returned", "kept"}
    /\ \E seed \in Seeds :
           call' = [call EXCEPT ![t] = [pc |-> "seed", fn |-> "monthly", n |-> MonthlyRows,
                                       seed |-> seed, loc |-> MonthlyLocals, ret |-> Raised]]
    /\ sched' = Switch(t)
    /\ watched' = Counted
    /\ UNCHANGED <<rng, probe, registry, session, fpu>>

\* np.random.seed(seed); months = pd.date_range('2023-01', '2023-12', freq='MS')
MonthlySeed(t) ==
    /\ At(t, "monthly", "seed")
    /\ rng' = SeedState(call[t].seed)
    /\ call' = [call EXCEPT ![t].pc = "Total_Revenue", ![t].loc.Month = Months]
    /\ sched' = Switch(t)
    /\ UNCHANGED <<watched, probe, registry, session, fpu>>

\* 'Total_Revenue': np.random.uniform(150000, 250000, 12)
MonthlyRevenue(t) ==
    /\ At(t, "monthly", "Total_Revenue")
    /\ rng' = Advance(rng, MonthlyRows)
    /\ call' = [call EXCEPT ![t].pc = "Total_Orders",
                            ![t].loc.Total_Revenue =
                                UniformVec(15000000, 25000000, Draws(rng, MonthlyRows))]
    /\ sched' = Switch(t)
    /\ UNCHANGED <<watched, probe, registry, session, fpu>>

\* 'Total_Orders': np.random.randint(400, 700, 12)
MonthlyOrders(t) ==
    /\ At(t, "monthly", "Total_Orders")
    /\ rng' = Advance(rng, MonthlyRows)
    /\ call' = [call EXCEPT ![t].pc = "Avg_Order_Value",
                            ![t].loc.Total_Orders = RandInt(400, 700, Draws(rng, MonthlyRows))]
    /\ sched' = Switch(t)
    /\ UNCHANGED <<watched, probe, registry, session, fpu>>

\* 'Avg_Order_Value': np.random.uniform(300, 500, 12)
MonthlyAvgOrder(t) ==
    /\ At(t, "monthly", "Avg_Order_Value")
    /\ rng' = Advance(rng, MonthlyRows)
    /\ call' = [call EXCEPT ![t].pc = "Customer_Count",
                            ![t].loc.Avg_Order_Value =
                                UniformVec(30000, 50000, Draws(rng, MonthlyRows))]
    /\ sched' = Switch(t)
    /\ UNCHANGED <<watched, probe, registry, session, fpu>>

\* 'Customer_Count': np.random.randint(300, 500, 12)
MonthlyCustomers(t) ==
    /\ At(t, "monthly", "Customer_Count")
    /\ rng' = Advance(rng, MonthlyRows)
    /\ call' = [call EXCEPT ![t].pc = "New_Customers",
                            ![t].loc.Customer_Count = RandInt(300, 500, Draws(rng, MonthlyRows))]
    /\ sched' = Switch(t)
    /\ UNCHANGED <<watched, probe, registry, session, fpu>>

\* 'New_Customers': np.random.randint(50, 120, 12)
MonthlyNew(t) ==
    /\ At(t, "monthly", "New_Customers")
    /\ rng' = Advance(rng, MonthlyRows)
    /\ call' = [call EXCEPT ![t].pc = "frame",
                            ![t].loc.New_Customers = RandInt(50, 120, Draws(rng, MonthlyRows))]
    /\ sched' = Switch(t)
    /\ UNCHANGED <<watched, probe, registry, session, fpu>>

\* df = pd.DataFrame(data); the two roundings; return df
MonthlyReturn(t) ==
    /\ At(t, "monthly", "frame")
    /\ \E more \in SUBSET Open(MonthlyFrameTies(call[t].loc)) :
           /\ fpu' = Resolved(MonthlyFrameTies(call[t].loc), more)
           /\ call' = [call EXCEPT ![t].pc = "returned",
                                   ![t].ret = MonthlyFrame(call[t].loc, fpu.up \cup more)]
    /\ sched' = Switch(t)
    /\ UNCHANGED <<rng, watched, probe, registry, session>>

MonthlyStep(t) ==
    \/ MonthlySeed(t)
    \/ MonthlyRevenue(t)
    \/ MonthlyOrders(t)
    \/ MonthlyAvgOrder(t)
    \/ MonthlyCustomers(t)
    \/ MonthlyNew(t)
    \/ MonthlyReturn(t)

\* --------------------------------------- generate_top_products_data, by step
CallTop(t) ==
    /\ call[t].pc \in {"idle", "returned", "kept"}
    /\ \E seed \in Seeds :
           call' = [call EXCEPT ![t] = [pc |-> "seed", fn |-> "top", n |-> TopRows,
                                       seed |-> seed, loc |-> TopLocals, ret |-> Raised]]
    /\ sched' = Switch(t)
    /\ watched' = Counted
    /\ UNCHANGED <<rng, probe, registry, session, fpu>>

\* np.random.seed(seed)
TopSeed(t) ==
    /\ At(t, "top", "seed")
    /\ rng' = SeedState(call[t].seed)
    /\ call' = Goto(t, "Units_Sold")
    /\ sched' = Switch(t)
    /\ UNCHANGED <<watched, probe, registry, session, fpu>>

\* 'Units_Sold': np.random.randint(500, 2000, 10)
TopUnits(t) ==
    /\ At(t, "top", "Units_Sold")
    /\ rng' = Advance(rng, TopRows)
    /\ call' = [call EXCEPT ![t].pc = "Revenue",
                            ![t].loc.Units_Sold = RandInt(500, 2000, Draws(rng, TopRows))]
    /\ sched' = Switch(t)
    /\ UNCHANGED <<watched, probe, registry, session, fpu>>

\* 'Revenue': np.random.uniform(50000, 200000, 10)
TopRevenue(t) ==
    /\ At(t, "top", "Revenue")
    /\ rng' = Advance(rng, TopRows)
    /\ call' = [call EXCEPT ![t].pc = "Avg_Rating",
                            ![t].loc.Revenue =
                                UniformVec(5000000, 20000000, Draws(rng, TopRows))]
    /\ sched' = Switch(t)
    /\ UNCHANGED <<watched, probe, registry, session, fpu>>

\* 'Avg_Rating': np.random.uniform(3.5, 5.0, 10)
TopRating(t) ==
    /\ At(t, "top", "Avg_Rating")
    /\ rng' = Advance(rng, TopRows)
    /\ call' = [call EXCEPT ![t].pc = "Return_Rate",
                            ![t].loc.Avg_Rating =
                                UniformVec(35, 50, Draws(rng, TopRows))]
    /\ sched' = Switch(t)
    /\ UNCHANGED <<watched, probe, registry, session, fpu>>

\* 'Return_Rate': np.random.uniform(1, 8, 10)
TopReturnRate(t) ==
    /\ At(t, "top", "Return_Rate")
    /\ rng' = Advance(rng, TopRows)
    /\ call' = [call EXCEPT ![t].pc = "frame",
                            ![t].loc.Return_Rate =
                                UniformVec(100, 800, Draws(rng, TopRows))]
    /\ sched' = Switch(t)
    /\ UNCHANGED <<watched, probe, registry, session, fpu>>

\* df = pd.DataFrame(data); the sort by Revenue; the three roundings; return df
TopReturn(t) ==
    /\ At(t, "top", "frame")
    /\ \E more \in SUBSET Open(TopFrameTies(call[t].loc)) :
           /\ fpu' = Resolved(TopFrameTies(call[t].loc), more)
           /\ call' = [call EXCEPT ![t].pc = "returned",
                                   ![t].ret = TopFrame(call[t].loc, fpu.up \cup more)]
    /\ sched' = Switch(t)
    /\ UNCHANGED <<rng, watched, probe, registry, session>>

TopStep(t) ==
    \/ TopSeed(t)
    \/ TopUnits(t)
    \/ TopRevenue(t)
    \/ TopRating(t)
    \/ TopReturnRate(t)
    \/ TopReturn(t)

\* ------------------------------------- the generators on freely chosen draws
\* The stream yields any value of its range at any position, so each column
\* computation is also run on every combination of draws of a bounded set.
PyRange(n) == 1 .. n

DrawVectors == UNION {[PyRange(n) -> Raw] : n \in 0 .. MaxProbeRows}

\* the dates column for the draws np.random.rand(n) returned
ProbeDates ==
    /\ probe.op = "none"
    /\ \E draws \in DrawVectors :
           probe' = [op |-> "dates", draws |-> draws, dates |-> DatesOf(draws)]
    /\ UNCHANGED <<rng, call, watched, sched, registry, session, fpu>>

\* the product and category columns for the draws np.random.choice took
ProbeProducts ==
    /\ probe.op = "none"
    /\ \E draws \in DrawVectors :
           LET product_list == ChoiceP(products, product_weights, draws)
           IN  probe' = [op |-> "products", draws |-> draws, product_list |-> product_list,
                         categories |-> Categories(product_list)]
    /\ UNCHANGED <<rng, call, watched, sched, registry, session, fpu>>

\* the products and the days the stream can yield, one day for every month
DrawableProducts == {ChooseWeighted(products, product_weights, u) : u \in Raw}

DrawableDays == {DayOffset(u) : u \in Raw}

RowDays ==
    {CHOOSE d \in DrawableDays : DatePlus(d).month = m :
        m \in {DatePlus(d).month : d \in DrawableDays}}

CostDraws == {0, RngMod \div 2, RngMod - 1}

\* one row of generate_demo_data's table for a product, a date, a Poisson draw
\* and the two uniform draws of the row
ProbeRow ==
    /\ probe.op = "none"
    /\ \E p \in DrawableProducts, d \in RowDays, k \in 0 .. MaxPoisson,
          uPrice \in Raw, uCost \in CostDraws :
           LET date == DatePlus(d)
               price == UnitPrice(p, uPrice)
               qty == Quantity(k, date.month)
               loc == [DemoLocals EXCEPT !.dates = <<date>>,
                                         !.product_list = <<p>>,
                                         !.categories = Categories(<<p>>),
                                         !.prices = <<price>>,
                                         !.quantities = <<qty>>,
                                         !.costs = <<Cost(price, uCost, qty)>>]
           IN  \E more \in SUBSET Open(DetailTies(loc)) :
                   /\ fpu' = Resolved(DetailTies(loc), more)
                   /\ probe' = [op |-> "row", poisson |-> k,
                                frame |-> DetailDict(1, loc, fpu.up \cup more)]
    /\ UNCHANGED <<rng, call, watched, sched, registry, session>>

TopDraws == {0, 1} \cup {RngMod - i : i \in 1 .. (TopDrawKinds - 2)}

\* generate_top_products_data's table for the draws of its Revenue column
ProbeTop ==
    /\ probe.op = "none"
    /\ \E draws \in [PyRange(TopRows) -> TopDraws] :
           LET loc == [TopLocals EXCEPT
                          !.Units_Sold = RandInt(500, 2000, draws),
                          !.Revenue = UniformVec(5000000, 20000000, draws),
                          !.Avg_Rating = UniformVec(35, 50, draws),
                          !.Return_Rate = UniformVec(100, 800, draws)]
           IN  \E more \in SUBSET Open(TopFrameTies(loc)) :
                   /\ fpu' = Resolved(TopFrameTies(loc), more)
                   /\ probe' = [op |-> "top", draws |-> draws,
                                ret |-> TopFrame(loc, fpu.up \cup more)]
    /\ UNCHANGED <<rng, call, watched, sched, registry, session>>

\* the tables handed to clean_data: up to MaxCleanRows rows, a numeric column
\* with missing values and a text column
CleanRows ==
    [A : {NaN} \cup {Num(n) : n \in 1 .. MaxCleanValue}, B : {"x", "y"}]

CleanTables == UNION {[1 .. n -> CleanRows] : n \in 0 .. MaxCleanRows}

\* clean_data applied to a table, and once more to its result
ProbeClean ==
    /\ probe.op = "none"
    /\ \E df \in CleanTables, copy_on_write \in BOOLEAN :
           LET ret == clean_data(df, copy_on_write)
           IN  probe' = [op |-> "clean", df |-> df, copy_on_write |-> copy_on_write,
                         ret |-> ret, again |-> clean_data(ret, copy_on_write)]
    /\ UNCHANGED <<rng, call, watched, sched, registry, session, fpu>>

\* ------------------------------------------------------- get_demo_datasets
\* a caller on thread t, running no generator itself, calls get_demo_datasets();
\* the calls are counted up to two
GetDemoDatasets(t) ==
    /\ call[t].pc \in {"idle", "returned", "kept"}
    /\ rng' = StreamAfterRegistry
    /\ \E more \in SUBSET Open(RegistryTies) :
           LET ret == get_demo_datasets(fpu.up \cup more)
           IN  /\ fpu' = Resolved(RegistryTies, more)
               /\ registry' =
                      [calls |-> IF registry.calls < 2 THEN registry.calls + 1 ELSE 2,
                       before |-> rng,
                       draws |-> 0,
                       ret |-> ret,
                       first |-> IF registry.calls = 0 THEN ret ELSE registry.first]
    /\ sched' = Switch(t)
    /\ UNCHANGED <<call, watched, probe, session>>

\* the caller takes a draw of its own from np.random, np.random.rand()
CallerDraw(t) ==
    /\ call[t].pc \in {"idle", "returned", "kept"}
    /\ rng' = NextState(rng)
    /\ registry' = IF registry.calls = 0 THEN registry
                   ELSE [registry EXCEPT !.draws = (@ + 1) % RngMod]
    /\ sched' = Switch(t)
    /\ UNCHANGED <<call, watched, probe, session, fpu>>

\* ------------------------------------------------------------------ the app
\* the analysis sections of the sidebar radio, in its order
Sections == <<"overview", "kpi", "visualizations", "analysis">>

\* init_session_state's value of 'current_section'
LoadingSection == "loading"

\* the files a user may put in the uploader: name, the text after the last dot of
\* the name, and whether the parser of its format can read the content
Files ==
    {[name |-> "sales.csv", ext |-> "csv", wellformed |-> TRUE],
     [name |-> "SALES.CSV", ext |-> "CSV", wellformed |-> TRUE],
     [name |-> "broken.csv", ext |-> "csv", wellformed |-> FALSE],
     [name |-> "sales.xlsx", ext |-> "xlsx", wellformed |-> TRUE],
     [name |-> "broken.xls", ext |-> "xls", wellformed |-> FALSE],
     [name |-> "notes.txt", ext |-> "txt", wellformed |-> TRUE]}

\* str.lower() on the extensions of Files
Lower(ext) == IF ext = "CSV" THEN "csv" ELSE ext

\* pd.read_csv / pd.read_excel of an uploaded file: the table, or an exception
ParseFile(file) ==
    IF file.wellformed
    THEN [raised |-> FALSE, table |-> [origin |-> "file", name |-> file.name]]
    ELSE [raised |-> TRUE, table |-> NoData]

read_csv(file) == ParseFile(file)

read_excel(file) == ParseFile(file)

\* the values the widgets return in one run of main: the reload button, the
\* sidebar radio, the uploader, the demo selectbox and the demo button, which is
\* disabled while nothing is selected; a run follows one click at most
Inputs ==
    {in \in [reload : BOOLEAN,
             section : {Sections[i] : i \in DOMAIN Sections},
             file : Files \cup {NoFile},
             selected_demo : {""} \cup DOMAIN get_demo_description,
             load_demo : BOOLEAN] :
        /\ in.load_demo => in.selected_demo # ""
        /\ ~(in.reload /\ in.load_demo)}

\* the run st.rerun() starts was triggered by no click
InputsOf(s) == {in \in Inputs : s.rerun => ~in.reload /\ ~in.load_demo}

\* the tables stored in 'data' so far are counted, up to two
Loaded(s) == IF s.loads < 2 THEN s.loads + 1 ELSE 2

\* the three keys are set when missing
init_session_state(s) ==
    IF s.started THEN s
    ELSE [s EXCEPT !.started = TRUE, !.data = NoData,
                   !.current_section = LoadingSection, !.data_source = "None"]

\* the try block of load_data_section ignoring the parser's exception: the
\* session is written whether the file was read or not
CommitUploadAnyway(s, parsed) ==
    [s EXCEPT !.data = parsed.table, !.data_source = "uploaded",
              !.upload = IF parsed.raised THEN "error" ELSE "loaded",
              !.rerun = ~parsed.raised, !.loads = Loaded(s)]

\* the try block of load_data_section after the parser returned or raised: the
\* exception is caught and reported, a table is stored and the script rerun
CommitUpload(s, parsed) ==
    IF parsed.raised THEN [s EXCEPT !.upload = "error"]
    ELSE [s EXCEPT !.data = parsed.table, !.data_source = "uploaded",
                   !.upload = "loaded", !.rerun = TRUE, !.loads = Loaded(s)]

\* the upload half of load_data_section
UploadPart(s, in) ==
    IF in.file = NoFile THEN s
    ELSE LET file_extension == Lower(in.file.ext)
         IN  IF file_extension = "csv" THEN CommitUpload(s, read_csv(in.file))
             ELSE IF file_extension \in {"xlsx", "xls"}
                  THEN CommitUpload(s, read_excel(in.file))
             ELSE [s EXCEPT !.upload = "unsupported"]

\* get_demo_datasets raises when a generator does
RegistryRaises == DemoRaises(RegistryRecords, DefaultSeed)

\* the demo half of load_data_section, after get_demo_datasets() returned
DemoPart(s, in, ties_up) ==
    IF in.load_demo /\ in.selected_demo # ""
    THEN [s EXCEPT !.data = [origin |-> "registry", key |-> in.selected_demo,
                             table |-> get_demo_datasets(ties_up)[in.selected_demo]],
                   !.data_source = "demo", !.rerun = TRUE, !.loads = Loaded(s)]
    ELSE s

\* load_data_section: the session and the stream it leaves; ties_up holds the
\* decimal ties of the registry's tables whose float lies above the tie
load_data_section(s, in, stream, ties_up) ==
    LET uploaded == UploadPart([s EXCEPT !.rendered = LoadingSection], in)
    IN  IF uploaded.upload \in {"unsupported", "loaded"}
        THEN [session |-> uploaded, rng |-> stream]
        ELSE IF RegistryRaises
             THEN [session |-> [uploaded EXCEPT !.crashed = TRUE], rng |-> StreamAfterRegistry]
        ELSE [session |-> DemoPart(uploaded, in, ties_up), rng |-> StreamAfterRegistry]

\* the radio's value left where init_session_state put it
KeepSection(s, in) == s

\* the sidebar radio, rendered while a dataset is loaded, sets 'current_section'
SelectSection(s, in) ==
    IF s.data.origin # "None" THEN [s EXCEPT !.current_section = in.section] ELSE s

\* the loading section shown whatever the session holds
ShowsLoadingAlways(s) == TRUE

\* if st.session_state['data'] is None
ShowsLoading(s) == s.data.origin = "None"

\* the section main's if/elif chain renders for 'current_section'
Dispatch(s) ==
    IF \E i \in DOMAIN Sections : Sections[i] = s.current_section
    THEN [s EXCEPT !.rendered = s.current_section]
    ELSE s

\* one run of the script, main(): the session and the stream it leaves
main(s, in, stream, ties_up) ==
    LET s0 == [init_session_state(s) EXCEPT !.rendered = "nothing", !.upload = "none",
                                            !.crashed = FALSE, !.rerun = FALSE,
                                            !.inputs = in]
    IN  IF in.reload
        THEN [session |-> [s0 EXCEPT !.data = NoData, !.data_source = "None", !.rerun = TRUE],
              rng |-> stream]
        ELSE LET s1 == SelectSection(s0, in)
             IN  IF ShowsLoading(s1) THEN load_data_section(s1, in, stream, ties_up)
                 ELSE [session |-> Dispatch(s1), rng |-> stream]

\* the browser session runs the script: on a user event, or on st.rerun(); the
\* floats of the registry's tables are the same in every run
RunMain ==
    /\ \E in \in InputsOf(session), more \in SUBSET Open(RegistryTies) :
           LET run == main(session, in, rng, fpu.up \cup more)
           IN  /\ session' = run.session
               /\ rng' = run.rng
               /\ fpu' = Resolved(RegistryTies, more)
    /\ UNCHANGED <<call, watched, probe, sched, registry>>

\* ------------------------------------------------------------ specifications
\* a caller invokes one of the three generators
CallAny(t) == CallDemo(t) \/ CallMonthly(t) \/ CallTop(t)

\* one statement of the generator thread t runs
Step(t) == DemoStep(t) \/ MonthlyStep(t) \/ TopStep(t)

\* one call at a time, any number of calls one after the other: the calls of
\* a single-threaded program
Next == CallAny(MainThread) \/ Step(MainThread) \/ KeepResult(MainThread)

Spec == Init /\ [][Next]_vars

\* two threads of one process, each making one generator call, the main thread
\* generate_demo_data and the other generate_monthly_demo_data: every call of
\* np.random is one step, and the steps of the two threads interleave, with at
\* most MaxPreemptions preemptions
CanRun(t) == Switch(t).preemptions <= MaxPreemptions

NextConc ==
    \/ CanRun(MainThread) /\ call[MainThread].pc = "idle" /\ CallDemo(MainThread)
    \/ CanRun(MainThread) /\ DemoStep(MainThread)
    \/ CanRun(OtherThread) /\ call[OtherThread].pc = "idle" /\ CallMonthly(OtherThread)
    \/ CanRun(OtherThread) /\ MonthlyStep(OtherThread)

SpecConc == Init /\ [][NextConc]_vars

\* a caller that draws from np.random and calls get_demo_datasets, in any order
NextRegistry == GetDemoDatasets(MainThread) \/ CallerDraw(MainThread)

SpecRegistry == Init /\ [][NextRegistry]_vars

\* one browser session: the script runs once per user event and per st.rerun()
InitApp == Init /\ rng = 0

NextApp == RunMain

SpecApp == InitApp /\ [][NextApp]_vars

\* every column computation on every combination of draws
InitDraws == Init /\ rng = 0

NextDraws == ProbeDates \/ ProbeProducts \/ ProbeRow \/ ProbeTop \/ ProbeClean

SpecDraws == InitDraws /\ [][NextDraws]_vars

\* ==================================================================== claims
\* what a generator call returns when no other thread touches the stream
Alone(c) ==
    CASE c.fn = "demo" -> generate_demo_data(c.n, c.seed, fpu.up)
      [] c.fn = "monthly" -> generate_monthly_demo_data(c.seed, fpu.up)
      [] c.fn = "top" -> generate_top_products_data(c.seed, fpu.up)

\* the number a formatted id denotes, or -1 when it is not `prefix` followed
\* by exactly `width` digits
IdNumber(id, prefix, width) ==
    IF id.prefix = prefix /\ Len(id.digits) = width THEN DigitsValue(id.digits) ELSE -1

\* C1 (Determinism): under Spec, whenever a call generate_demo_data(n, seed)
\* with n >= 1 has returned and the caller kept what an earlier call with the
\* same n and seed returned, the two results are identical, column by column and
\* row by row (and alike when both raise), whatever the stream state before each
\* call and whatever generator calls ran in between.
C1_Determinism ==
    \A t \in Threads :
        (/\ At(t, "demo", "returned")
         /\ call[t].n >= 1
         /\ watched.kept
         /\ watched.n = call[t].n
         /\ watched.seed = call[t].seed)
        => call[t].ret = watched.ret

\* C1 witness: a table of MaxRecords rows was kept, at least one other call ran,
\* and a later call with the same arguments returned a table.
C1_Witness ==
    /\ At(MainThread, "demo", "returned")
    /\ watched.kept /\ watched.later = 2
    /\ watched.n = call[MainThread].n /\ watched.seed = call[MainThread].seed
    /\ call[MainThread].n = MaxRecords
    /\ ~call[MainThread].ret.raised
    /\ NRows(call[MainThread].ret.frame) = MaxRecords

\* C2 (Non-interference of seeds): under SpecConc, when two generator calls
\* with different seeds run concurrently, each call that has returned returned
\* exactly what it returns when run alone.
C2_NonInterference ==
    \A t, o \in Threads :
        (/\ t # o
         /\ call[t].pc = "returned"
         /\ call[o].fn # "none"
         /\ call[o].seed # call[t].seed)
        => call[t].ret = Alone(call[t])

\* C3 (Empty input): under Spec, every call generate_demo_data(0, seed) that has
\* returned did not raise and returned a table with exactly the 14 columns and
\* zero rows.
C3_EmptyInput ==
    \A t \in Threads :
        (At(t, "demo", "returned") /\ call[t].n = 0)
        => /\ ~call[t].ret.raised
           /\ DOMAIN call[t].ret.frame = DetailColumns
           /\ Cardinality(DetailColumns) = 14
           /\ \A c \in DOMAIN call[t].ret.frame : Len(call[t].ret.frame[c]) = 0

\* C3 witness: a call with n = 0 has returned a frame.
C3_Witness ==
    /\ At(MainThread, "demo", "returned")
    /\ call[MainThread].n = 0
    /\ ~call[MainThread].ret.raised
    /\ call[MainThread].seed = MaxSeed

\* C4 (Customer pool floor): under Spec, every call of generate_demo_data with
\* n >= 1 that has returned did not raise, and every Customer_ID of its table is
\* 'CUST' followed by a 5-digit number k with 1 <= k <= max(1, n // 3).
C4_CustomerPoolFloor ==
    \A t \in Threads :
        (At(t, "demo", "returned") /\ call[t].n >= 1)
        => /\ ~call[t].ret.raised
           /\ \A i \in 1 .. Len(call[t].ret.frame.Customer_ID) :
                  LET k == IdNumber(call[t].ret.frame.Customer_ID[i], "CUST", 5)
                  IN  1 <= k /\ k <= Max(1, call[t].n \div 3)

\* C5 (Quantity lower bound): under SpecDraws, in every row generate_demo_data
\* computes, for every Poisson draw and every month, Quantity is an integer >= 1.
C5_QuantityAtLeastOne ==
    probe.op = "row" =>
        \A i \in 1 .. Len(probe.frame.Quantity) :
            probe.frame.Quantity[i] \in Nat /\ probe.frame.Quantity[i] >= 1

\* C6 as claimed (Derived-field consistency within 1e-6): under SpecDraws, in
\* every row the stored Revenue equals the stored Unit_Price times Quantity and
\* the stored Profit equals the stored Revenue minus the stored Cost; the stored
\* values are whole cents, so a difference below 1e-6 is no difference.
C6_DerivedExact ==
    probe.op = "row" =>
        \A i \in 1 .. Len(probe.frame.Revenue) :
            /\ probe.frame.Revenue[i] = probe.frame.Unit_Price[i] * probe.frame.Quantity[i]
            /\ probe.frame.Profit[i] = probe.frame.Revenue[i] - probe.frame.Cost[i]

\* C6 as amended (Derived-field consistency up to rounding): under SpecDraws, in
\* every row |Revenue - Unit_Price * Quantity| <= 0.005 * (Quantity + 1) and
\* |Profit - (Revenue - Cost)| <= 0.01, for the stored values in cents.
C6_DerivedUpToRounding ==
    probe.op = "row" =>
        \A i \in 1 .. Len(probe.frame.Revenue) :
            /\ 2 * Abs(probe.frame.Revenue[i] - probe.frame.Unit_Price[i] * probe.frame.Quantity[i])
                   <= probe.frame.Quantity[i] + 1
            /\ Abs(probe.frame.Profit[i] - (probe.frame.Revenue[i] - probe.frame.Cost[i])) <= 1

\* C6 witness: a row whose stored Revenue differs from Unit_Price * Quantity and
\* whose stored Profit differs from Revenue - Cost.
C6_Witness ==
    /\ probe.op = "row"
    /\ probe.frame.Revenue[1] # probe.frame.Unit_Price[1] * probe.frame.Quantity[1]
    /\ probe.frame.Profit[1] # probe.frame.Revenue[1] - probe.frame.Cost[1]

\* C7 (Date ordering and window): under SpecDraws, the Date column has one date
\* per draw, is non-decreasing by row index, and every date is 2023-01-01 plus
\* an integer offset in 0..364, so it lies in 2023-01-01 .. 2023-12-31.
C7_DatesOrderedInWindow ==
    probe.op = "dates" =>
        /\ Len(probe.dates) = Len(probe.draws)
        /\ \A i, j \in 1 .. Len(probe.dates) : i <= j => DateLeq(probe.dates[i], probe.dates[j])
        /\ \A i \in 1 .. Len(probe.dates) :
               /\ \E k \in 0 .. (DaysInWindow - 1) : probe.dates[i] = DatePlus(k)
               /\ probe.dates[i].year = 2023
               /\ probe.dates[i].month \in 1 .. 12
               /\ probe.dates[i].day \in 1 .. MonthLengths[probe.dates[i].month]

\* C7 witness: draws that came out of the stream in descending order, the
\* largest of the range among them, and a Date column of distinct dates.
C7_Witness ==
    /\ probe.op = "dates"
    /\ Len(probe.draws) = MaxProbeRows
    /\ probe.draws[1] = RngMod - 1
    /\ probe.draws[1] > probe.draws[MaxProbeRows]
    /\ probe.dates[1] # probe.dates[MaxProbeRows]
    /\ probe.dates[MaxProbeRows].month = 12

\* C8 (Leaderboard ordering): under SpecDraws, generate_top_products_data's
\* table has exactly 10 rows and its Revenue values, read in row order after
\* the rounding to 2 decimals, are non-increasing.
C8_LeaderboardOrdered ==
    probe.op = "top" =>
        /\ ~probe.ret.raised
        /\ \A c \in DOMAIN probe.ret.frame : Len(probe.ret.frame[c]) = 10
        /\ \A i \in 1 .. 9 : probe.ret.frame.Revenue[i] >= probe.ret.frame.Revenue[i + 1]

\* C8 witness: the draws were not in descending order and the table holds
\* different Revenue values.
C8_Witness ==
    /\ probe.op = "top"
    /\ probe.draws[1] < probe.draws[2]
    /\ probe.draws[9] > probe.draws[10]
    /\ probe.ret.frame.Revenue[1] > probe.ret.frame.Revenue[10]

\* the fixed product -> category table of the claim
ClaimedCategory(p) ==
    CASE p \in {"Laptop", "Monitor"} -> "Computers"
      [] p \in {"Phone", "Tablet"} -> "Mobile"
      [] p \in {"Headphones", "Mouse", "Keyboard", "Webcam", "Speaker", "Charger"} -> "Accessories"
      [] OTHER -> "none"

\* C9 (Category mapping): under SpecDraws, in every row Category is the entry
\* of the fixed table for the row's Product, rows with the same Product have the
\* same Category, and each of the 10 products the generator draws from has an
\* entry in the table.
C9_CategoryMapping ==
    /\ Len(products) = 10
    /\ \A i \in 1 .. Len(products) : products[i] \in DOMAIN category_map
    /\ probe.op = "products" =>
        /\ Len(probe.categories) = Len(probe.product_list)
        /\ \A i \in 1 .. Len(probe.product_list) :
               probe.categories[i] = ClaimedCategory(probe.product_list[i])
        /\ \A i, j \in 1 .. Len(probe.product_list) :
               probe.product_list[i] = probe.product_list[j]
               => probe.categories[i] = probe.categories[j]

\* C9 witness: a Monitor row and a Charger row in one table, and every one of
\* the 10 products is drawn for some draw.
C9_Witness ==
    /\ probe.op = "products"
    /\ Len(probe.product_list) = MaxProbeRows
    /\ probe.product_list[1] = "Monitor" /\ probe.categories[1] = "Computers"
    /\ probe.product_list[MaxProbeRows] = "Charger"
    /\ DrawableProducts = {products[i] : i \in 1 .. Len(products)}

\* C10 (Monthly shape): under Spec, every call of generate_monthly_demo_data
\* that has returned returned a table of exactly 12 rows whose Month values are
\* the firsts of January .. December 2023, in this order.
C10_MonthlyShape ==
    \A t \in Threads :
        At(t, "monthly", "returned")
        => /\ ~call[t].ret.raised
           /\ \A c \in DOMAIN call[t].ret.frame : Len(call[t].ret.frame[c]) = 12
           /\ \A i \in 1 .. 12 :
                  call[t].ret.frame.Month[i] = [year |-> 2023, month |-> i, day |-> 1]

\* C10 witness: a call of generate_monthly_demo_data with the largest seed has
\* returned its table.
C10_Witness ==
    /\ At(MainThread, "monthly", "returned")
    /\ call[MainThread].seed = MaxSeed
    /\ ~call[MainThread].ret.raised
    /\ Len(call[MainThread].ret.frame.Total_Revenue) = 12

\* C13: get_demo_datasets is pure: every call returns the same three labelled
\* tables, its keys are the keys of get_demo_description, and the call leaves
\* the process-global stream as it found it, so that the caller's next draws are
\* the ones it would have had without the call
C13_RegistryPure ==
    registry.calls > 0 =>
        /\ registry.ret = registry.first
        /\ DOMAIN registry.ret = DOMAIN get_demo_description
        /\ Cardinality(DOMAIN registry.ret) = 3
        /\ Advance(registry.before, registry.draws) = rng

\* the run that left session s reported a failed upload
UploadFailed(s) == s.upload \in {"unsupported", "error"}

\* the run that left session s stored a demo table
DemoStored(s) == s.upload = "error" /\ s.inputs.load_demo /\ s.inputs.selected_demo # ""

\* C11: a run of main whose upload fails (unsupported extension, or the parser
\* raises) does not crash and leaves 'data' and 'data_source' as they were, so
\* no dataset is loaded; the next run can load a demo table or a readable file
C11_FailedUploadCommitsNothing ==
    [][UploadFailed(session') /\ ~DemoStored(session') =>
          /\ ~session'.crashed
          /\ session'.data = session.data
          /\ session'.data_source = session.data_source
          /\ session'.data = NoData
          /\ session'.data_source = "None"
          /\ \E in \in InputsOf(session') :
                 main(session', in, rng', fpu'.up).session.data_source = "demo"
          /\ \E in \in InputsOf(session') :
                 main(session', in, rng', fpu'.up).session.data_source = "uploaded"]_vars

\* a run of main ended after the parser raised on the uploaded file, with no
\* demo requested and nothing loaded
C11_Witness ==
    /\ session.upload = "error"
    /\ ~session.inputs.file.wellformed
    /\ ~session.inputs.load_demo
    /\ session.rendered = LoadingSection
    /\ session.data = NoData

\* the table a run with the widget values `in` loads from the uploader
UploadedTable(in) == ParseFile(in.file).table

\* the table a run with the widget values `in` loads from the registry
DemoTable(in, ties_up) ==
    [origin |-> "registry", key |-> in.selected_demo,
     table |-> get_demo_datasets(ties_up)[in.selected_demo]]

\* C12: the session holds one dataset at most: a loaded 'data' changes only by
\* the reload button clearing it, a table becomes 'data' only while 'data' is
\* None, and 'data' is then the whole table just loaded, from the uploader or
\* from the registry
C12_SingleActiveDataset ==
    [][session'.data # session.data =>
          /\ session.data # NoData =>
                 session'.data = NoData /\ session'.inputs.reload
          /\ session'.data # NoData =>
                 /\ session.data = NoData
                 /\ session'.rendered = LoadingSection
                 /\ \/ session'.data = UploadedTable(session'.inputs)
                    \/ session'.data = DemoTable(session'.inputs, fpu'.up)]_vars

\* a second table is the active dataset, the first one cleared by the reload
\* button in between
C12_Witness ==
    /\ session.loads = 2
    /\ session.data # NoData
    /\ session.data_source = "uploaded"

\* C14: the table clean_data returns has no more rows than its input and no
\* missing value in a numeric column
C14_CleanFillsMissing ==
    probe.op = "clean" =>
        /\ Len(probe.ret) <= Len(probe.df)
        /\ \A i \in 1 .. Len(probe.ret) : ~probe.ret[i].A.nan

\* C15: the table clean_data returns has no two identical rows, and cleaning it
\* once more returns it unchanged
C15_CleanRemovesDuplicates ==
    probe.op = "clean" =>
        /\ \A i, j \in 1 .. Len(probe.ret) : probe.ret[i] = probe.ret[j] => i = j
        /\ probe.again = probe.ret

\* C16: once init_session_state has run, 'data' is None exactly when
\* 'data_source' is None; 'data_source' is 'uploaded' only for a table parsed
\* from an uploaded file and 'demo' only for a table of the registry; and a run
\* of main that ran to its end rendered the loading section exactly when 'data'
\* is None, and otherwise one analysis section, the one the radio selects
C16_SessionPairing ==
    session.started =>
        /\ session.data = NoData <=> session.data_source = "None"
        /\ session.data_source \in {"None", "uploaded", "demo"}
        /\ session.data_source = "uploaded" =>
               \E f \in Files : f.wellformed /\ session.data = ParseFile(f).table
        /\ session.data_source = "demo" =>
               \E k \in DOMAIN get_demo_description :
                   session.data = [origin |-> "registry", key |-> k,
                                   table |-> get_demo_datasets(fpu.up)[k]]
        /\ ~session.rerun =>
               /\ session.rendered = LoadingSection <=> session.data = NoData
               /\ session.data # NoData =>
                      /\ \E i \in DOMAIN Sections : session.rendered = Sections[i]
                      /\ session.rendered = session.inputs.section

\* a demo table is loaded and main rendered the KPI section for it
C16_Witness ==
    /\ session.started
    /\ ~session.rerun
    /\ session.data_source = "demo"
    /\ session.rendered = "kpi"

\* C17 (Non-negative margin): under SpecDraws, in every row generate_demo_data
\* computes, the stored values, each rounded to 2 decimals, satisfy
\* 0 <= Cost <= Revenue and Profit >= 0.
C17_NonNegativeMargin ==
    probe.op = "row" =>
        \A i \in 1 .. Len(probe.frame.Cost) :
            /\ 0 <= probe.frame.Cost[i]
            /\ probe.frame.Cost[i] <= probe.frame.Revenue[i]
            /\ probe.frame.Profit[i] >= 0

\* C17 witness: a row of several units with a positive cost below its revenue
\* and a positive profit
C17_Witness ==
    /\ probe.op = "row"
    /\ probe.frame.Quantity[1] >= 2
    /\ probe.frame.Cost[1] > 0
    /\ probe.frame.Cost[1] < probe.frame.Revenue[1]
    /\ probe.frame.Profit[1] > 0

====
